---- MODULE Spec2Model ----
(***************************************************************************)
(* Token Usage Tracker, UI module (src/ui.js): the mock data generator,    *)
(* the Y-axis scale and bar geometry of renderChart, the hover handlers    *)
(* of the cursor rectangles, update(range) and the debounced resize        *)
(* listener.                                                               *)
(*                                                                         *)
(* Numbers.  Usage values, pixel sizes and times are integers.  The Y      *)
(* scale works on fractions (maxUsage / 4, 2.5 * magnitude): those are     *)
(* kept exactly, as integers counted in units of 1/Q, and a JavaScript     *)
(* number is a record [k, v] whose kind k tells a finite number from NaN   *)
(* and the infinities that Math.max, Math.log10 and 0/0 produce.  Lengths  *)
(* of the bar outline are fractions [n, d] with d > 0.                     *)
(*                                                                         *)
(* Time.  Wall-clock instants are hours since the epoch (UTC); the local   *)
(* calendar is the instant shifted by the time zone offset tz.  The        *)
(* debounce timer counts milliseconds.                                     *)
(***************************************************************************)
EXTENDS Integers, Sequences, FiniteSets, TLC

VARIABLES
    currentRange,       \* let currentRange
    chartData,          \* let chartData
    container,          \* children of #chart-container: <<>> or <<svg>>
    tooltip,            \* #tooltip, #tooltip-date, #tooltip-usage
    activeButtons,      \* data-values of the .range-btn elements with class active
    resizeTimeout,      \* let resizeTimeout: id of the last timer, 0 = undefined
    timers,             \* the event loop's pending timeouts: [id, remaining ms]
    viewport,           \* container.getBoundingClientRect()
    hovered,            \* index of the cursor rect under the pointer, 0 = none
    now,                \* wall clock, hours since the epoch (UTC)
    tz,                 \* local time zone offset, hours
    lastOp,             \* history: the handler that ran last
    sinceResize,        \* history: ms since the last resize event (saturating)
    redrawsSinceResize, \* history: timer redraws since the last resize event
    inBurst,            \* history: the last resize event came less than
                        \* ResizeDelay ms after the one before it
    callA,              \* result of the latest direct generateMockData call
    callB,              \* result of the direct call before it
    axisIn,             \* input of the Y-scale computation (dataset maximum)
    axisOut             \* its result [step, niceMax]

vars == <<currentRange, chartData, container, tooltip, activeButtons,
          resizeTimeout, timers, viewport, hovered, now, tz, lastOp,
          sinceResize, redrawsSinceResize, inBurst, callA, callB, axisIn,
          axisOut>>

\* the variables of the page: everything but the clock and the operands of
\* the direct generator and Y-scale calls
pageVars == <<currentRange, chartData, container, tooltip, activeButtons,
              resizeTimeout, timers, viewport, hovered, lastOp, sinceResize,
              redrawsSinceResize, inBurst>>

-----------------------------------------------------------------------------
(* Bounds of the model *)

\* pointer events are tried on the first MaxZone hover zones of a drawing
MaxZone == 2
\* pending timeouts the event loop is allowed to hold
MaxTimers == 2
\* hours the wall clock may advance between two generator calls
MaxClockHours == 30
\* dataset maxima 0..MaxAxisInput are tried on the Y scale
MaxAxisInput == 120

-----------------------------------------------------------------------------
(* Calendar: what Date.getFullYear/getMonth/getDate/getDay return *)

\* local calendar day (days since 1970-01-01) of an instant
LocalDay(instant, offset) == (instant + offset) \div 24

\* year, month (1..12), day of month of a calendar day (days since
\* 1970-01-01), by eras of 400 years: doe is the day of the era, yoe the year
\* of the era, doy the day of the year counted from March 1, mp the month
\* counted from March
CivilOfMonth(era, yoe, doy, mp) ==
    [year  |-> yoe + era * 400 + (IF mp < 10 THEN 0 ELSE 1),
     month |-> IF mp < 10 THEN mp + 3 ELSE mp - 9,
     day   |-> doy - (153 * mp + 2) \div 5 + 1]

CivilOfDayOfYear(era, yoe, doy) ==
    CivilOfMonth(era, yoe, doy, (5 * doy + 2) \div 153)

CivilOfYearOfEra(era, doe, yoe) ==
    CivilOfDayOfYear(era, yoe, doe - (365 * yoe + yoe \div 4 - yoe \div 100))

CivilOfEra(era, doe) ==
    CivilOfYearOfEra(era, doe,
        (doe - doe \div 1460 + doe \div 36524 - doe \div 146096) \div 365)

CivilFromDays(z) ==
    CivilOfEra((z + 719468) \div 146097,
               (z + 719468) - ((z + 719468) \div 146097) * 146097)

\* Date.getDay(): 0 = Sunday .. 6 = Saturday (1970-01-01 was a Thursday)
GetDay(z) == (z + 4) % 7

WeekdayNames == <<"Sunday", "Monday", "Tuesday", "Wednesday", "Thursday",
                  "Friday", "Saturday">>
MonthNames == <<"January", "February", "March", "April", "May", "June", "July",
                "August", "September", "October", "November", "December">>
MonthShort == <<"Jan", "Feb", "Mar", "Apr", "May", "Jun", "Jul", "Aug", "Sep",
                "Oct", "Nov", "Dec">>

\* displayDate: Intl.DateTimeFormat('en-US', {month: 'short', day: 'numeric'})
\* gives "Nov 3", modelled <<"Nov", 3>>; fullDate: {weekday: 'long', year:
\* 'numeric', month: 'long', day: 'numeric'} gives "Tuesday, November 3, 2026",
\* modelled <<"Tuesday", "November", 3, 2026>>

-----------------------------------------------------------------------------
(* Mock data generation *)

\* Math.floor(((Math.sin(dateSeed) + 1) / 2) * 2500) for the date seeds of
\* 2026-07-16 .. 2026-11-13, the dates the model's clock can reach
SinTable ==
    (20260716 :> 1997) @@ (20260717 :> 2496) @@ (20260718 :> 1850) @@ (20260719 :> 651) @@
    (20260720 :> 3) @@ (20260721 :> 501) @@ (20260722 :> 1687) @@ (20260723 :> 2471) @@
    (20260724 :> 2132) @@ (20260725 :> 982) @@ (20260726 :> 77) @@ (20260727 :> 251) @@
    (20260728 :> 1342) @@ (20260729 :> 2349) @@ (20260730 :> 2344) @@ (20260731 :> 1333) @@
    (20260801 :> 337) @@ (20260802 :> 37) @@ (20260803 :> 852) @@ (20260804 :> 2032) @@
    (20260805 :> 2493) @@ (20260806 :> 1810) @@ (20260807 :> 613) @@ (20260808 :> 0) @@
    (20260809 :> 536) @@ (20260810 :> 1728) @@ (20260811 :> 2480) @@ (20260812 :> 2100) @@
    (20260813 :> 939) @@ (20260814 :> 63) @@ (20260815 :> 278) @@ (20260816 :> 1386) @@
    (20260817 :> 2369) @@ (20260818 :> 2322) @@ (20260819 :> 1289) @@ (20260820 :> 220) @@
    (20260821 :> 97) @@ (20260822 :> 1034) @@ (20260823 :> 2169) @@ (20260824 :> 2459) @@
    (20260825 :> 1637) @@ (20260826 :> 459) @@ (20260827 :> 8) @@ (20260828 :> 698) @@
    (20260829 :> 1896) @@ (20260830 :> 2499) @@ (20260831 :> 1953) @@ (20260901 :> 896) @@
    (20260902 :> 50) @@ (20260903 :> 306) @@ (20260904 :> 1430) @@ (20260905 :> 2388) @@
    (20260906 :> 2299) @@ (20260907 :> 1245) @@ (20260908 :> 195) @@ (20260909 :> 115) @@
    (20260910 :> 1078) @@ (20260911 :> 2198) @@ (20260912 :> 2447) @@ (20260913 :> 1594) @@
    (20260914 :> 425) @@ (20260915 :> 13) @@ (20260916 :> 738) @@ (20260917 :> 1933) @@
    (20260918 :> 2499) @@ (20260919 :> 1916) @@ (20260920 :> 720) @@ (20260921 :> 11) @@
    (20260922 :> 440) @@ (20260923 :> 1614) @@ (20260924 :> 2452) @@ (20260925 :> 2185) @@
    (20260926 :> 1058) @@ (20260927 :> 106) @@ (20260928 :> 206) @@ (20260929 :> 1265) @@
    (20260930 :> 2310) @@ (20261001 :> 1552) @@ (20261002 :> 392) @@ (20261003 :> 21) @@
    (20261004 :> 779) @@ (20261005 :> 1970) @@ (20261006 :> 2498) @@ (20261007 :> 1879) @@
    (20261008 :> 680) @@ (20261009 :> 6) @@ (20261010 :> 474) @@ (20261011 :> 1656) @@
    (20261012 :> 2464) @@ (20261013 :> 2155) @@ (20261014 :> 1014) @@ (20261015 :> 89) @@
    (20261016 :> 231) @@ (20261017 :> 1309) @@ (20261018 :> 2332) @@ (20261019 :> 2360) @@
    (20261020 :> 1366) @@ (20261021 :> 265) @@ (20261022 :> 69) @@ (20261023 :> 958) @@
    (20261024 :> 2115) @@ (20261025 :> 2476) @@ (20261026 :> 1710) @@ (20261027 :> 520) @@
    (20261028 :> 1) @@ (20261029 :> 630) @@ (20261030 :> 1828) @@ (20261031 :> 2495) @@
    (20261101 :> 2124) @@ (20261102 :> 971) @@ (20261103 :> 74) @@ (20261104 :> 257) @@
    (20261105 :> 1353) @@ (20261106 :> 2354) @@ (20261107 :> 2339) @@ (20261108 :> 1322) @@
    (20261109 :> 239) @@ (20261110 :> 84) @@ (20261111 :> 1001) @@ (20261112 :> 2146) @@
    (20261113 :> 2467)

\* the sample pushed for a Date at instant `date` whose local calendar day is
\* z = c.year-c.month-c.day
SampleOf(date, z, c, isWeekend) ==
    LET dateSeed  == c.year * 10000 + c.month * 100 + c.day
        base      == IF isWeekend THEN 1500 ELSE 5000
        dayIndex  == date \div 24
        spike     == IF dayIndex % 37 = 0 THEN 45000
                     ELSE IF dayIndex % 11 = 0 THEN 15000
                     ELSE IF dayIndex % 5 = 0 /\ ~isWeekend THEN 5000
                     ELSE 0
    IN  [date        |-> date,
         usage       |-> base + SinTable[dateSeed] + spike,
         displayDate |-> <<MonthShort[c.month], c.day>>,
         fullDate    |-> <<WeekdayNames[GetDay(z) + 1], MonthNames[c.month],
                           c.day, c.year>>]

\* the Date of loop index i: setDate(getDate() - i) keeps the local time of
\* day, so it is i whole days before `instant` (today = new Date())
SampleOn(date, z) ==
    SampleOf(date, z, CivilFromDays(z), GetDay(z) = 0 \/ GetDay(z) = 6)

MockSample(i, instant, offset) ==
    SampleOn(instant - 24 * i, LocalDay(instant - 24 * i, offset))

\* generateMockData with the loop stopping one sample early (i > 0)
generateMockDataShort(days, instant, offset) ==
    [k \in 1..(days - 1) |-> MockSample(days - k, instant, offset)]

\* generateMockData(days): oldest sample first; no sample when days <= 0
generateMockData(days, instant, offset) ==
    [k \in 1..days |-> MockSample(days - k, instant, offset)]

-----------------------------------------------------------------------------
(* Number formatting *)

RECURSIVE ThousandsGroups(_)
ThousandsGroups(num) ==
    IF num < 1000 THEN <<num>>
    ELSE Append(ThousandsGroups(num \div 1000), num % 1000)

\* Intl.NumberFormat('en-US').format(num): the digit groups "52,345"
formatNumberFull(num) == ThousandsGroups(num)

-----------------------------------------------------------------------------
(* JavaScript numbers of the Y scale, in units of 1/Q *)

Q == 4 * 10

Num(v) == [k |-> "num", v |-> v]
NaN    == [k |-> "nan", v |-> 0]
NegInf == [k |-> "-inf", v |-> 0]
PosInf == [k |-> "+inf", v |-> 0]

\* the largest element of a non-empty set
SetMax(S) == CHOOSE m \in S : \A x \in S : x <= m

\* Math.max(...values): -Infinity for no argument
MathMax(values) ==
    IF Len(values) = 0 THEN NegInf
    ELSE Num(Q * SetMax({values[i] : i \in 1..Len(values)}))

\* x / 4
Quarter(x) == IF x.k = "num" THEN Num(x.v \div 4) ELSE x

RECURSIVE Log10Of(_, _)
\* largest e >= start with 10^e <= v / Q, for v >= Q / 10 and start = -1
Log10Of(v, e) == IF v >= Q * 10 ^ (e + 1) THEN Log10Of(v, e + 1) ELSE e

\* Math.floor(Math.log10(x)), a plain integer: -Infinity at 0, NaN below 0
FloorLog10(x) ==
    CASE x.k = "num" /\ x.v > 0 -> Num(Log10Of(x.v, -1))
      [] x.k = "num" /\ x.v = 0 -> NegInf
      [] x.k = "+inf"           -> PosInf
      [] OTHER                  -> NaN

\* Math.pow(10, e)
Pow10(e) ==
    CASE e.k = "num" /\ e.v >= 0 -> Num(Q * 10 ^ e.v)
      [] e.k = "num" /\ e.v < 0  -> Num(Q \div 10)
      [] e.k = "-inf"            -> Num(0)
      [] e.k = "+inf"            -> PosInf
      [] OTHER                   -> NaN

\* Math.ceil(a / b), a plain integer; 0/0 is NaN
CeilDiv(a, b) ==
    CASE a.k = "nan" \/ b.k = "nan"            -> NaN
      [] a.k = "num" /\ b.k = "num" /\ b.v > 0 -> Num(-((-a.v) \div b.v))
      [] a.k = "num" /\ b.k = "num" /\ a.v = 0 -> NaN
      [] a.k = "num" /\ b.k = "num" /\ a.v > 0 -> PosInf
      [] a.k = "num" /\ b.k = "num"            -> NegInf
      [] a.k = "num"                           -> Num(0)
      [] b.k = "num" /\ b.v > 0                -> a
      [] OTHER                                 -> NaN

\* c * m for a plain integer c; Infinity * 0 and NaN * m are NaN
Times(c, m) ==
    CASE c.k = "nan" \/ m.k = "nan"  -> NaN
      [] c.k = "num" /\ m.k = "num"  -> Num(c.v * m.v)
      [] c.k = "num" /\ c.v = 0      -> NaN
      [] m.k = "num" /\ m.v = 0      -> NaN
      [] c.k = "num"                 -> m
      [] OTHER                       -> c

\* (tn / td) * m
Scaled(tn, td, m) == IF m.k = "num" THEN Num((tn * m.v) \div td) ELSE m

\* a / b < tn / td; every comparison with NaN (also 0/0) is false
RatioLess(a, b, tn, td) ==
    a.k = "num" /\ b.k = "num" /\ b.v > 0 /\ a.v * td < tn * b.v

\* x === 0
IsZero(x) == x.k = "num" /\ x.v = 0

-----------------------------------------------------------------------------
(* Chart rendering *)

COLORS == [bar |-> "#6366f1", text |-> "#64748b", grid |-> "#e2e8f0",
           cursor |-> "#f1f5f9"]

margin == [top |-> 10, right |-> 10, bottom |-> 25, left |-> 50]

\* corner radius of the bar outline
r == 4

\* "Y Scale Logic": step and niceMax for the dataset maximum maxUsage
YScale(maxUsage) ==
    LET roughStep == Quarter(maxUsage)
        magnitude == Pow10(FloorLog10(roughStep))
        ceiled    == Times(CeilDiv(roughStep, magnitude), magnitude)
        step      == IF RatioLess(ceiled, magnitude, 3, 2)
                         THEN Scaled(1, 1, magnitude)
                     ELSE IF RatioLess(ceiled, magnitude, 3, 1)
                         THEN Scaled(5, 2, magnitude)
                     ELSE IF RatioLess(ceiled, magnitude, 7, 1)
                         THEN Scaled(5, 1, magnitude)
                     ELSE Scaled(10, 1, magnitude)
        ceilMax   == Times(CeilDiv(maxUsage, step), step)
        niceMax   == IF IsZero(ceilMax) THEN Num(Q * 5000) ELSE ceilMax
    IN  [step |-> step, niceMax |-> niceMax]

\* a length of the drawing: the fraction n / d (d > 0), or NaN
Frac(n, d) == [k |-> "num", n |-> n, d |-> d]
FracNaN    == [k |-> "nan", n |-> 0, d |-> 1]

\* the grid values of "for (val = 0; val <= niceMax; val += step)"
GridValues(axis) ==
    IF axis.step.k = "num" /\ axis.niceMax.k = "num" /\ axis.step.v > 0
    THEN [k \in 1..(axis.niceMax.v \div axis.step.v + 1) |-> (k - 1) * axis.step.v]
    ELSE <<>>

\* let labelInterval
LabelInterval(range) == IF range = 90 THEN 6 ELSE IF range = 30 THEN 2 ELSE 1

\* barWidth: 98% of the slot, at most 80
BarWidth(chartWidth, count) ==
    IF chartWidth * 98 > 8000 * count THEN Frac(8000 * count, 100 * count)
    ELSE Frac(chartWidth * 98, 100 * count)

\* "Bar Shape": the outline of a bar of height h and width w, with the lengths
\* its v and h commands are given
BarOutline(h, w) ==
    IF h.k = "num" /\ h.n < r * h.d
    THEN [shape |-> "rect", h |-> h, w |-> w, vRun |-> h, hRun |-> w]
    ELSE [shape |-> "rounded", h |-> h, w |-> w,
          vRun |-> IF h.k = "num" THEN Frac(h.n - r * h.d, h.d) ELSE h,
          hRun |-> Frac(w.n - 2 * r * w.d, w.d)]

\* Math.max(0, barH)
ClampHeight(barH) ==
    IF barH.k = "num" /\ barH.n < 0 THEN Frac(0, barH.d) ELSE barH

\* barH = (d.usage / niceMax) * chartHeight
BarHeight(usage, niceMax, chartHeight) ==
    IF niceMax.k = "num" /\ niceMax.v > 0
    THEN Frac(usage * Q * chartHeight, niceMax.v) ELSE FracNaN

BarShape(usage, niceMax, chartWidth, chartHeight, count) ==
    BarOutline(ClampHeight(BarHeight(usage, niceMax, chartHeight)),
               BarWidth(chartWidth, count))

\* the hover cursor of sample d in slot i (0-based), with its closure's d
CursorRect(d, i, chartWidth, chartHeight, count) ==
    [x      |-> Frac(margin.left * count + i * chartWidth, count),
     width  |-> Frac(chartWidth, count),
     height |-> chartHeight,
     fill   |-> "transparent",
     d      |-> d]

\* the <svg> renderChart builds for a non-empty bounding rectangle, given
\* the Y scale `axis` of the data
SvgOf(rect, data, range, count, chartWidth, chartHeight, axis) ==
    [width   |-> rect.width,
     height  |-> rect.height,
     axis    |-> axis,
     grid    |-> GridValues(axis),
     cursors |-> [i \in 1..count |->
                    CursorRect(data[i], i - 1, chartWidth, chartHeight, count)],
     bars    |-> [i \in 1..count |->
                    BarShape(data[i].usage, axis.niceMax, chartWidth,
                             chartHeight, count)],
     labels  |-> [i \in {j \in 1..count : (j - 1) % LabelInterval(range) = 0}
                    |-> data[i].displayDate]]

BuildSvg(rect, data, range) ==
    SvgOf(rect, data, range, Len(data),
          rect.width - margin.left - margin.right,
          rect.height - margin.top - margin.bottom,
          YScale(MathMax([i \in 1..Len(data) |-> data[i].usage])))

\* renderChart(): the container's children afterwards.  The container is
\* emptied first; nothing is appended for an empty bounding rectangle.
renderChart(rect, data, range) ==
    IF rect.width = 0 \/ rect.height = 0 THEN <<>>
    ELSE <<BuildSvg(rect, data, range)>>

-----------------------------------------------------------------------------
(* Hover handlers of one cursor rect (index i of the drawn svg) *)

\* cursor.addEventListener('mouseenter', ...)
mouseenter(svg, tip, i) ==
    LET d == svg.cursors[i].d
    IN  [svg |-> [svg EXCEPT !.cursors[i].fill = COLORS.cursor],
         tip |-> [tip EXCEPT !.date = d.fullDate,
                             !.usage = <<formatNumberFull(d.usage), "tokens">>,
                             !.hidden = FALSE]]

\* cursor.addEventListener('mousemove', ...)
mousemove(tip, clientX, clientY) ==
    [tip EXCEPT !.transform = <<clientX + 15, clientY - 10>>]

\* mouseleave that hides the tooltip and leaves the highlight on
mouseleaveKeepFill(svg, tip, i) ==
    [svg |-> svg, tip |-> [tip EXCEPT !.hidden = TRUE]]

\* cursor.addEventListener('mouseleave', ...)
mouseleave(svg, tip, i) ==
    [svg |-> [svg EXCEPT !.cursors[i].fill = "transparent"],
     tip |-> [tip EXCEPT !.hidden = TRUE]]

-----------------------------------------------------------------------------
(* update(range) and the resize listener *)

\* the range buttons of the page
Buttons == {7, 30, 90}

\* update(range), called at `instant` with the container measuring `rect`
updateWith(range, data, rect) ==
    [currentRange  |-> range,
     chartData     |-> data,
     container     |-> renderChart(rect, data, range),
     activeButtons |-> {b \in Buttons : b = range}]

update(range, instant, offset, rect) ==
    updateWith(range, generateMockData(range, instant, offset), rect)

\* delay of setTimeout(renderChart, 100)
ResizeDelay == 100

\* a resize listener that does not cancel: the pending timeout stays
clearNothing(pending, id) == pending

\* clearTimeout(id)
clearTimeout(pending, id) == {t \in pending : t.id # id}

\* setTimeout(renderChart, delay): a fresh id and the timer added
setTimeout(pending, delay) ==
    LET id == CHOOSE n \in 1..(Cardinality(pending) + 1) :
                  /\ \A t \in pending : t.id # n
                  /\ \A m \in 1..(n - 1) : \E t \in pending : t.id = m
    IN  [id |-> id, pending |-> pending \cup {[id |-> id, remaining |-> delay]}]

\* the resize listener
onResize(pending, lastId) ==
    setTimeout(clearTimeout(pending, lastId), ResizeDelay)

-----------------------------------------------------------------------------
(* Inputs *)

\* bounding rectangles the container takes
Viewports == {[width |-> 800, height |-> 300], [width |-> 600, height |-> 300],
              [width |-> 0, height |-> 300], [width |-> 800, height |-> 0]}

\* e.clientX, e.clientY of mousemove
PointerCoords == {<<100, 100>>, <<420, 60>>}

\* time zone offsets (hours) of the host
TimeZones == {-5, 0, 9}

\* the offset of the host the page runs on
HostZone == -5

\* 2026-11-03 15:00 UTC (day 20760 since the epoch, a Tuesday)
StartInstant == 20760 * 24 + 15

\* milliseconds the event loop lets pass in one step
TickSteps == {50}

\* hours the wall clock advances in one step
ClockSteps == {6, 12}

\* window lengths the generator is called with
GenDays == {1, 7, 30}

\* non-positive window lengths
InvalidRanges == {0, -1}

\* dataset maxima handed to the Y scale
AxisInputs == (0..MaxAxisInput) \cup {100 * k : k \in 1..525}

-----------------------------------------------------------------------------
(* Initial state: the module has run, ending with update(30) *)

InitUI(rect, offset) ==
    \E u \in {update(30, StartInstant, offset, rect)} :
        /\ now = StartInstant
        /\ tz = offset
        /\ viewport = rect
        /\ currentRange = u.currentRange
        /\ chartData = u.chartData
        /\ container = u.container
        /\ activeButtons = u.activeButtons
        /\ tooltip = [hidden |-> TRUE, date |-> <<>>, usage |-> <<>>,
                      transform |-> <<>>]
        /\ resizeTimeout = 0
        /\ timers = {}
        /\ hovered = 0
        /\ lastOp = "update"
        /\ sinceResize = ResizeDelay
        /\ redrawsSinceResize = 0
        /\ inBurst = FALSE

Init ==
    /\ \E rect \in Viewports : InitUI(rect, HostZone)
    /\ callA = <<>>
    /\ callB = <<>>
    /\ axisIn = NegInf
    /\ axisOut = <<>>

-----------------------------------------------------------------------------
(* Actions *)

\* a cursor rect the pointer can be over: it has a positive area
Hoverable(i) ==
    /\ container # <<>>
    /\ i \in 1..Len(container[1].cursors)
    /\ container[1].cursors[i].width.n > 0
    /\ container[1].cursors[i].height > 0

\* the click listener of #range-selector calls update(range)
Update(range) ==
    \E u \in {update(range, now, tz, viewport)} :
        /\ currentRange' = u.currentRange
        /\ chartData' = u.chartData
        /\ container' = u.container
        /\ activeButtons' = u.activeButtons
        /\ hovered' = 0
        /\ lastOp' = "update"
        /\ UNCHANGED <<tooltip, resizeTimeout, timers, viewport, now, tz,
                       sinceResize, redrawsSinceResize, inBurst, callA, callB, axisIn, axisOut>>

\* the window is resized: the container takes the rectangle rect and the
\* resize listener runs
Resize(rect) ==
    \E s \in {onResize(timers, resizeTimeout)} :
        /\ Cardinality(timers) < MaxTimers
        /\ viewport' = rect
        /\ resizeTimeout' = s.id
        /\ timers' = s.pending
        /\ sinceResize' = 0
        /\ redrawsSinceResize' = 0
        /\ inBurst' = (resizeTimeout # 0 /\ sinceResize < ResizeDelay)
        /\ lastOp' = "resize"
        /\ UNCHANGED <<currentRange, chartData, container, tooltip, activeButtons,
                       hovered, now, tz, callA, callB, axisIn, axisOut>>

\* ms milliseconds pass; a due timeout may still be waiting for its turn
Tick(ms) ==
    /\ timers' = {[t EXCEPT !.remaining = IF t.remaining > ms
                                         THEN t.remaining - ms ELSE 0] : t \in timers}
    /\ sinceResize' = IF sinceResize + ms > ResizeDelay THEN ResizeDelay
                      ELSE sinceResize + ms
    /\ lastOp' = "tick"
    /\ UNCHANGED <<currentRange, chartData, container, tooltip, activeButtons,
                   resizeTimeout, viewport, hovered, now, tz, redrawsSinceResize,
                   inBurst, callA, callB, axisIn, axisOut>>

\* a due timeout runs renderChart
TimerFire(t) ==
    /\ t \in timers
    /\ t.remaining = 0
    /\ timers' = timers \ {t}
    /\ container' = renderChart(viewport, chartData, currentRange)
    /\ hovered' = 0
    /\ redrawsSinceResize' = redrawsSinceResize + 1
    /\ lastOp' = "timer"
    /\ UNCHANGED <<currentRange, chartData, tooltip, activeButtons, resizeTimeout,
                   viewport, now, tz, sinceResize, inBurst, callA, callB, axisIn, axisOut>>

\* the pointer comes over cursor rect i
MouseEnter(i) ==
    /\ hovered = 0
    /\ Hoverable(i)
    /\ \E e \in {mouseenter(container[1], tooltip, i)} :
           /\ container' = <<e.svg>>
           /\ tooltip' = e.tip
    /\ hovered' = i
    /\ lastOp' = "mouseenter"
    /\ UNCHANGED <<currentRange, chartData, activeButtons, resizeTimeout, timers,
                   viewport, now, tz, sinceResize, redrawsSinceResize, inBurst, callA,
                   callB, axisIn, axisOut>>

\* the pointer moves to p over the cursor rect it is on
MouseMove(p) ==
    /\ hovered # 0
    /\ tooltip' = mousemove(tooltip, p[1], p[2])
    /\ lastOp' = "mousemove"
    /\ UNCHANGED <<currentRange, chartData, container, activeButtons,
                   resizeTimeout, timers, viewport, hovered, now, tz, sinceResize,
                   redrawsSinceResize, inBurst, callA, callB, axisIn, axisOut>>

\* the pointer leaves the cursor rect it is on
MouseLeave ==
    /\ hovered # 0
    /\ \E e \in {mouseleave(container[1], tooltip, hovered)} :
           /\ container' = <<e.svg>>
           /\ tooltip' = e.tip
    /\ hovered' = 0
    /\ lastOp' = "mouseleave"
    /\ UNCHANGED <<currentRange, chartData, activeButtons, resizeTimeout, timers,
                   viewport, now, tz, sinceResize, redrawsSinceResize, inBurst, callA,
                   callB, axisIn, axisOut>>

Next ==
    \/ \E range \in Buttons : Update(range)
    \/ \E rect \in Viewports : Resize(rect)
    \/ \E ms \in TickSteps : Tick(ms)
    \/ \E t \in timers : TimerFire(t)
    \/ \E i \in 1..MaxZone : MouseEnter(i)
    \/ \E p \in PointerCoords : MouseMove(p)
    \/ MouseLeave

Spec == Init /\ [][Next]_vars

-----------------------------------------------------------------------------
(* The event loop's fairness: time passes, and a due timeout gets its turn
   (a step that takes a due timeout out of the pending ones is TimerFire) *)

DueTimeoutRuns == \E t \in timers : t.remaining = 0 /\ timers' = timers \ {t}

FairSpec ==
    /\ Spec
    /\ WF_vars(\E ms \in TickSteps : Tick(ms))
    /\ WF_timers(DueTimeoutRuns)

-----------------------------------------------------------------------------
(* update called with a non-positive range *)

NextAnyRange ==
    \/ Next
    \/ \E range \in InvalidRanges : Update(range)

SpecAnyRange == Init /\ [][NextAnyRange]_vars

-----------------------------------------------------------------------------
(* generateMockData called directly, at several instants in several zones *)

InitGen ==
    /\ \E offset \in TimeZones : InitUI([width |-> 800, height |-> 300], offset)
    /\ callA = <<>>
    /\ callB = <<>>
    /\ axisIn = NegInf
    /\ axisOut = <<>>

\* the wall clock advances by h hours
ClockAdvance(h) ==
    /\ now + h <= StartInstant + MaxClockHours
    /\ now' = now + h
    /\ UNCHANGED <<pageVars, tz, callA, callB, axisIn, axisOut>>

\* generateMockData(days) is called now
GenerateCall(days) ==
    /\ callA' = generateMockData(days, now, tz)
    /\ callB' = callA
    /\ UNCHANGED <<pageVars, now, tz, axisIn, axisOut>>

NextGen ==
    \/ \E h \in ClockSteps : ClockAdvance(h)
    \/ \E days \in GenDays : GenerateCall(days)

SpecGen == InitGen /\ [][NextGen]_vars

-----------------------------------------------------------------------------
(* the Y scale computed for a dataset maximum *)

InitAxis ==
    /\ InitUI([width |-> 800, height |-> 300], HostZone)
    /\ callA = <<>>
    /\ callB = <<>>
    /\ axisIn \in {Num(Q * m) : m \in AxisInputs}
    /\ axisOut = <<>>

ComputeAxis ==
    /\ axisOut = <<>>
    /\ axisOut' = <<YScale(axisIn)>>
    /\ UNCHANGED <<pageVars, now, tz, callA, callB, axisIn>>

NextAxis == ComputeAxis

SpecAxis == InitAxis /\ [][NextAxis]_vars

-----------------------------------------------------------------------------
(* C1: resize debounce *)

\* C1 (state part): while less than ResizeDelay ms have passed since the last
\* resize event (the burst is still running) exactly one timeout is pending,
\* it is the one resizeTimeout names, it is due ResizeDelay ms after that
\* event, and no redraw has happened since the event; once a resize event has
\* happened, the redraws done since the last one plus the redraws still
\* pending are exactly one.
C1_OnePendingRedraw ==
    /\ sinceResize < ResizeDelay =>
          /\ timers = {[id |-> resizeTimeout,
                        remaining |-> ResizeDelay - sinceResize]}
          /\ redrawsSinceResize = 0
    /\ resizeTimeout # 0 => Cardinality(timers) + redrawsSinceResize = 1
    /\ resizeTimeout = 0 => timers = {} /\ redrawsSinceResize = 0

\* C1 (step part): a redraw triggered by the timer runs only when at least
\* ResizeDelay ms have passed since the last resize event.
C1_NoRedrawInBurst ==
    lastOp' = "timer" => sinceResize >= ResizeDelay /\ redrawsSinceResize = 0

\* C1: every resize event cancels the pending redraw and schedules one
\* ResizeDelay ms later; no redraw happens during a burst, exactly one
\* happens after its last event, and a pending redraw does happen unless a
\* further resize event arrives first.
C1_ResizeDebounce ==
    /\ []C1_OnePendingRedraw
    /\ [][C1_NoRedrawInBurst]_vars
    /\ (timers # {}) ~> (timers = {} \/ sinceResize = 0)

\* a burst of at least two resize events has ended in its one redraw
C1_Witness ==
    inBurst /\ lastOp = "timer" /\ redrawsSinceResize = 1 /\ timers = {}

-----------------------------------------------------------------------------
(* C2: hover state machine *)

\* indices of the highlighted cursor rects of the drawn chart
ActiveZones ==
    IF container = <<>> THEN {}
    ELSE {i \in 1..Len(container[1].cursors) :
              container[1].cursors[i].fill # "transparent"}

RECURSIVE GroupsValue(_)
\* the number a sequence of thousands groups spells
GroupsValue(groups) ==
    IF Len(groups) = 1 THEN groups[1]
    ELSE 1000 * GroupsValue(SubSeq(groups, 1, Len(groups) - 1)) + groups[Len(groups)]

\* the tooltip carries sample d's long label and its value, thousands-grouped,
\* with the unit
TooltipShows(d) ==
    /\ tooltip.date = d.fullDate
    /\ Len(tooltip.usage) = 2
    /\ tooltip.usage[2] = "tokens"
    /\ GroupsValue(tooltip.usage[1]) = d.usage
    /\ \A k \in 2..Len(tooltip.usage[1]) : tooltip.usage[1][k] \in 0..999
    /\ tooltip.usage[1][1] \in 1..999

\* C2 (state part): at most one zone is highlighted, it is the zone the
\* pointer is on, and while the pointer is on a zone the tooltip is shown with
\* that zone's sample.
C2_OneActiveZone ==
    /\ Cardinality(ActiveZones) <= 1
    /\ ActiveZones = (IF hovered = 0 THEN {} ELSE {hovered})
    /\ hovered # 0 =>
          /\ ~tooltip.hidden
          /\ TooltipShows(container[1].cursors[hovered].d)

\* C2 (step part): entering zone i makes i the active zone and shows the
\* tooltip; a move only sets the tooltip's position to the pointer plus
\* (15, -10); leaving clears the active zone and hides the tooltip.
C2_HoverSteps ==
    /\ lastOp' = "mouseenter" =>
          /\ hovered' # 0 /\ ActiveZones' = {hovered'}
          /\ ~tooltip'.hidden
          /\ tooltip'.transform = tooltip.transform
    /\ lastOp' = "mousemove" =>
          /\ container' = container /\ hovered' = hovered
          /\ tooltip'.hidden = tooltip.hidden
          /\ tooltip'.date = tooltip.date /\ tooltip'.usage = tooltip.usage
          /\ \E p \in PointerCoords : tooltip'.transform = <<p[1] + 15, p[2] - 10>>
    /\ lastOp' = "mouseleave" =>
          /\ hovered' = 0 /\ ActiveZones' = {}
          /\ tooltip'.hidden

\* C2: for any sequence of pointer enter / move / leave events at most one
\* zone is active; entering a zone activates it and fills the tooltip with its
\* sample, a move only repositions the tooltip, leaving clears and hides.
C2_HoverStateMachine ==
    /\ []C2_OneActiveZone
    /\ [][C2_HoverSteps]_vars

\* the pointer has entered zone 2 and moved there
C2_Witness ==
    /\ hovered = 2 /\ lastOp = "mousemove"
    /\ tooltip.transform = <<435, 50>>
    /\ ActiveZones = {2}

-----------------------------------------------------------------------------
(* C3: the series is replaced only by a range change *)

\* the samples the drawn hover zones were built from
DrawnSeries ==
    IF container = <<>> THEN <<>>
    ELSE [i \in 1..Len(container[1].cursors) |-> container[1].cursors[i].d]

\* C3 (state part): in every state the current series is the one generated
\* for the current range, and a drawn chart is drawn from that series and
\* thinned for that range.
C3_RangeSeriesDrawing ==
    /\ Len(chartData) = currentRange
    /\ chartData = generateMockData(currentRange, now, tz)
    /\ activeButtons = {currentRange}
    /\ container # <<>> =>
          /\ DrawnSeries = chartData
          /\ DOMAIN container[1].labels =
                {j \in 1..currentRange : (j - 1) % LabelInterval(currentRange) = 0}

\* C3 (step part): a redraw by the resize timer changes neither series nor
\* range and draws from them; nothing but update changes series or range.
C3_OnlyUpdateReplaces ==
    /\ lastOp' = "timer" =>
          /\ chartData' = chartData /\ currentRange' = currentRange
          /\ container' = renderChart(viewport, chartData, currentRange)
    /\ (chartData' # chartData \/ currentRange' # currentRange) =>
          lastOp' = "update"

\* C3: update(n) sets the range, regenerates the series and redraws in one
\* step; a resize redraw leaves series and range unchanged.
C3_SeriesReplacedOnlyByUpdate ==
    /\ []C3_RangeSeriesDrawing
    /\ [][C3_OnlyUpdateReplaces]_vars

\* after update(7), a resize to 600 wide has been redrawn by the timer
C3_Witness ==
    /\ lastOp = "timer" /\ currentRange = 7
    /\ container # <<>> /\ container[1].width = 600
    /\ Len(container[1].bars) = 7

-----------------------------------------------------------------------------
(* C4: generator determinism *)

\* C4: two generateMockData calls give every local calendar date that is in
\* both results the same usage value.
C4_GeneratorDeterminism ==
    \A i \in 1..Len(callA), j \in 1..Len(callB) :
        LocalDay(callA[i].date, tz) = LocalDay(callB[j].date, tz)
            => callA[i].usage = callB[j].usage

-----------------------------------------------------------------------------
(* C5, C6: the Y scale *)

\* C5: for every dataset maximum >= 0 (0 included) niceMax is a number, is
\* strictly positive, is a whole multiple of step and is >= the maximum.
C5_AxisInvariant ==
    (axisOut # <<>> /\ axisIn.k = "num" /\ axisIn.v >= 0) =>
        /\ axisOut[1].niceMax.k = "num"
        /\ axisOut[1].niceMax.v > 0
        /\ axisOut[1].step.k = "num"
        /\ axisOut[1].step.v > 0
        /\ axisOut[1].niceMax.v % axisOut[1].step.v = 0
        /\ axisOut[1].niceMax.v >= axisIn.v

\* the step of the nice-number rule: thresholds 1.5, 3 and 7 on
\* r = roughStep / magnitude
RuleStepOf(roughStep, magnitude) ==
    IF RatioLess(roughStep, magnitude, 3, 2) THEN Scaled(1, 1, magnitude)
    ELSE IF RatioLess(roughStep, magnitude, 3, 1) THEN Scaled(5, 2, magnitude)
    ELSE IF RatioLess(roughStep, magnitude, 7, 1) THEN Scaled(5, 1, magnitude)
    ELSE Scaled(10, 1, magnitude)

RuleStep(maxValue) ==
    RuleStepOf(Quarter(maxValue), Pow10(FloorLog10(Quarter(maxValue))))

\* C6: for every maximum > 0 the step renderChart uses is the step of the
\* nice-number rule.
C6_StepMatchesRule ==
    (axisOut # <<>> /\ axisIn.k = "num" /\ axisIn.v > 0) =>
        axisOut[1].step = RuleStep(axisIn)

-----------------------------------------------------------------------------
(* C7: a non-positive range *)

\* C7: a request for days <= 0 is rejected and changes nothing, so the current
\* range is always positive and the current series never empty.
C7_InvalidRangeRejected ==
    /\ currentRange > 0
    /\ Len(chartData) > 0

-----------------------------------------------------------------------------
(* C8: render on an empty viewport *)

\* C8: a renderChart call (here: the resize timer's) made while the container
\* measures zero wide or zero high changes nothing: not the drawn content, the
\* series, the range or the tooltip.
C8_EmptyViewportNoOp ==
    [][(lastOp' = "timer" /\ (viewport.width = 0 \/ viewport.height = 0)) =>
          /\ container' = container
          /\ chartData' = chartData /\ currentRange' = currentRange
          /\ tooltip' = tooltip]_vars

-----------------------------------------------------------------------------
(* C9: tooltip and hover zones across redraws *)

\* C9: whenever the tooltip is visible, some zone of the drawn chart is active
\* and the tooltip shows that zone's sample of the current series.
C9_TooltipHasActiveZone ==
    ~tooltip.hidden =>
        \E i \in ActiveZones : i <= Len(chartData) /\ TooltipShows(chartData[i])

-----------------------------------------------------------------------------
(* C10: lengths of the bar outlines *)

\* C10: on a viewport with non-zero width and height and a supported range,
\* every bar is a plain rectangle exactly when h < r, and h, w and the runs
\* h - r and w - 2r of the rounded shape are never negative.
C10_OutlineLengthsNonNegative ==
    (container # <<>> /\ currentRange \in Buttons) =>
        \A i \in 1..Len(container[1].bars) :
            LET b == container[1].bars[i]
            IN  /\ b.h.k = "num" /\ b.h.n >= 0
                /\ b.w.n >= 0
                /\ (b.shape = "rect") = (b.h.n < r * b.h.d)
                /\ b.shape = "rounded" => b.vRun.n >= 0 /\ b.hRun.n >= 0
====
